---- MODULE Spec2Model ----
(***************************************************************************)
(* OctoLightHA: an OctoPrint plugin that toggles one Home Assistant light. *)
(* Model of octoprint_octolightHA/__init__.py (class OctoLightHAPlugin).   *)
(*                                                                         *)
(* Strings that the code takes apart (address, entity_id, state strings)   *)
(* are sequences of tokens; a token is one special character ("/", ".")    *)
(* or a run of ordinary characters.  Python's True / False / None are the  *)
(* strings PyTrue / PyFalse / PyNone, so that a variable may hold any of   *)
(* the three, as self.isLightOn does.                                      *)
(***************************************************************************)
EXTENDS Integers, Sequences, FiniteSets, TLC

VARIABLES
    phase,        \* plugin lifecycle: "constructed", "initialized", "started"
    settings,     \* the host's persisted plugin settings (self._settings)
    config,       \* self.config
    isLightOn,    \* self.isLightOn, the cached light state
    hubLight,     \* the light's actual state on the Home Assistant hub
    handler,      \* the last handler the host called, with its input
    old_isLightOn,\* self.isLightOn when that handler was entered
    trace,        \* what that handler did, in order: HTTP requests, sleeps,
                  \* log lines, writes of self.isLightOn, plugin messages
    ret,          \* what that handler returned (a JSON body or RetNone)
    raised,       \* the exception that handler let escape, or NoExc
    lastMessage,  \* isLightOn of the last plugin message sent, or NoMessage
    threads,      \* for request threads that run side by side: where each
                  \* is in on_api_get and its local variables
    saver         \* for a settings save that runs beside them: where it is
                  \* in on_settings_save

vars == <<phase, settings, config, isLightOn, hubLight, handler,
          old_isLightOn, trace, ret, raised, lastMessage, threads, saver>>

----------------------------------------------------------------------------
(* Bounds of the model. *)

\* the longest run of trailing '/' in an address entered in the settings
MaxSlashes == 1

\* the longest text of '/' and line feeds after the host of an address that
\* reaches on_settings_save from the settings API
MaxTail == 3

----------------------------------------------------------------------------
(* Python values. *)

PyTrue == "True"
PyFalse == "False"
PyNone == "None"
PyValues == {PyTrue, PyFalse, PyNone}

\* bool(x) for x in PyValues
truthy(x) == x = PyTrue

NoExc == "none"
NoMessage == "no message"
RetNone == {<<"return", PyNone>>}

\* The exception classes that occur, each with its direct base class.
ExcBase ==
    [ InvalidURL       |-> "RequestException",
      ConnectionError  |-> "RequestException",
      ReadTimeout      |-> "RequestException",
      RequestException |-> "Exception",
      JSONDecodeError  |-> "ValueError",
      ValueError       |-> "Exception",
      IndexError       |-> "LookupError",
      KeyError         |-> "LookupError",
      LookupError      |-> "Exception",
      TypeError        |-> "Exception",
      Exception        |-> "BaseException" ]

RECURSIVE IsInstance(_, _)
\* isinstance(exc, cls) for exception class names
IsInstance(exc, cls) ==
    IF exc = cls THEN TRUE
    ELSE IF exc \in DOMAIN ExcBase THEN IsInstance(ExcBase[exc], cls)
    ELSE FALSE

\* whether an `except (c1, c2, ...)` clause catches exc
Catches(classes, exc) == \E c \in classes : IsInstance(exc, c)

----------------------------------------------------------------------------
(* JSON values, as response.json() returns them. *)

JNull == [t |-> "null"]
JNum == [t |-> "number"]
JStr(s) == [t |-> "string", v |-> s]
JArr(a) == [t |-> "array", v |-> a]
\* an object is the set of its <<key, value>> pairs
JObj(kv) == [t |-> "object", v |-> kv]

Ok(v) == [exc |-> NoExc, val |-> v]
Raise(e) == [exc |-> e, val |-> JNull]

\* Python j[0]
GetIndex0(j) ==
    CASE j.t = "array"  -> IF Len(j.v) > 0 THEN Ok(j.v[1]) ELSE Raise("IndexError")
      [] j.t = "string" -> IF Len(j.v) > 0 THEN Ok(JStr(<<j.v[1]>>)) ELSE Raise("IndexError")
      [] j.t = "object" -> Raise("KeyError")
      [] OTHER          -> Raise("TypeError")

\* Python j[key] for a string key
GetKey(j, key) ==
    CASE j.t = "object" ->
            IF \E p \in j.v : p[1] = key
            THEN Ok((CHOOSE p \in j.v : p[1] = key)[2])
            ELSE Raise("KeyError")
      [] OTHER -> Raise("TypeError")

----------------------------------------------------------------------------
(* Strings as token sequences. *)

EmptyStr == <<>>
on == <<"on">>
off == <<"off">>

\* faulty variant: the part of s before its last '.'
SplitDotFirst_BeforeLastDot(s) ==
    LET dots == {i \in 1..Len(s) : s[i] = "."}
    IN  IF dots = {} THEN s
        ELSE SubSeq(s, 1, (CHOOSE i \in dots : \A j \in dots : i >= j) - 1)

\* s.split('.')[0]: the part of s before its first '.', all of s without one
SplitDotFirst(s) ==
    LET dots == {i \in 1..Len(s) : s[i] = "."}
    IN  IF dots = {} THEN s
        ELSE SubSeq(s, 1, (CHOOSE i \in dots : \A j \in dots : i <= j) - 1)

\* the line feed character
LF == "\n"

RECURSIVE StripTrailingSlashes(_)
\* s without the run of '/' it ends with
StripTrailingSlashes(s) ==
    IF Len(s) > 0 /\ s[Len(s)] = "/"
    THEN StripTrailingSlashes(SubSeq(s, 1, Len(s) - 1))
    ELSE s

\* re.sub(r'/*$', '', s): '$' matches at the end of s and also just before
\* a line feed that ends s, so the run of '/' in front of that line feed is
\* the one removed
re_sub_trailing_slashes(s) ==
    IF Len(s) > 0 /\ s[Len(s)] = LF
    THEN StripTrailingSlashes(SubSeq(s, 1, Len(s) - 1)) \o <<LF>>
    ELSE StripTrailingSlashes(s)

RECURSIVE Slashes(_)
Slashes(n) == IF n = 0 THEN <<>> ELSE <<"/">> \o Slashes(n - 1)

----------------------------------------------------------------------------
(* Configuration. *)

CONFIG_ADDRESS == "address"
CONFIG_API_KEY == "api_key"
CONFIG_ENTITY_ID == "entity_id"
CONFIG_VERIFY_CERTIFICATE == "verify_certificate"

ConfigKeys == {CONFIG_ADDRESS, CONFIG_API_KEY, CONFIG_ENTITY_ID,
               CONFIG_VERIFY_CERTIFICATE}

get_settings_defaults ==
    [k \in ConfigKeys |->
        IF k = CONFIG_VERIFY_CERTIFICATE THEN FALSE ELSE EmptyStr]

\* self.config after reload_settings(): every key of the defaults is read
\* from the settings store
reload_settings(cfg, store) ==
    [k \in (DOMAIN cfg) \cup (DOMAIN get_settings_defaults) |->
        IF k \in DOMAIN get_settings_defaults THEN store[k] ELSE cfg[k]]

\* faulty variant: the API key is not part of the completeness test
is_config_completed_NoApiKey(cfg) ==
    IF {CONFIG_ADDRESS, CONFIG_ENTITY_ID} \subseteq DOMAIN cfg
    THEN cfg[CONFIG_ADDRESS] # EmptyStr /\ cfg[CONFIG_ENTITY_ID] # EmptyStr
    ELSE FALSE

\* a missing key raises KeyError inside the try, which returns False
is_config_completed(cfg) ==
    IF {CONFIG_ADDRESS, CONFIG_ENTITY_ID, CONFIG_API_KEY} \subseteq DOMAIN cfg
    THEN /\ cfg[CONFIG_ADDRESS] # EmptyStr
         /\ cfg[CONFIG_ENTITY_ID] # EmptyStr
         /\ cfg[CONFIG_API_KEY] # EmptyStr
    ELSE FALSE

\* The values a user can enter in the settings dialog.
HubAddress == <<"http:", "/", "/", "hub">>
AddressInputs ==
    {base \o Slashes(n) : base \in {EmptyStr, HubAddress}, n \in 0..MaxSlashes}
EntityInputs == {EmptyStr, <<"light", ".", "kitchen">>, <<"lamp">>}
ApiKeyInputs == {EmptyStr, <<"token">>}

\* The address texts an API client can send: the host followed by any text
\* of '/' and line feeds.
Tails == UNION { [1..n -> {"/", LF}] : n \in 0..MaxTail }
AddressTexts == { base \o t : base \in {EmptyStr, HubAddress}, t \in Tails }

\* a settings save that carries only the address
AddressData == { [k \in {CONFIG_ADDRESS} |-> a] : a \in AddressTexts }

\* the data of a settings save: any subset of the keys, each with a value
SaveData ==
    { [k \in K |->
         CASE k = CONFIG_ADDRESS   -> a
           [] k = CONFIG_ENTITY_ID -> e
           [] k = CONFIG_API_KEY   -> t
           [] OTHER                -> v] :
      K \in SUBSET ConfigKeys, a \in AddressInputs, e \in EntityInputs,
      t \in ApiKeyInputs, v \in BOOLEAN }

----------------------------------------------------------------------------
(* The hub, as the plugin sees it: what one HTTP call comes back with.     *)
(* exc is the exception requests.get / requests.post raises (NoExc: a      *)
(* response arrived), parsed tells whether the body is JSON, value is the  *)
(* parsed body, and flip tells whether the hub switched the light when     *)
(* the call was a toggle.                                                  *)

StateObj(s) == JObj({<<"state", JStr(s)>>})

\* the state strings a hub reports
StateStrings == {on, off, <<"ON">>, <<"unavailable">>, EmptyStr}

\* bodies of the answer to GET /api/states/<entity_id>
GetBodies ==
    { StateObj(s) : s \in StateStrings }
    \cup { JObj({<<"state", JNull>>}), JObj({<<"message", JStr(<<"x">>)>>}),
           JArr(<<StateObj(on)>>), JStr(<<"x">>), JNull }

\* bodies of the answer to POST /api/services/<domain>/toggle
PostBodies ==
    { JArr(<<StateObj(s)>>) : s \in StateStrings }
    \cup { JArr(<<>>), JArr(<<JObj({})>>), JArr(<<JNum>>),
           JObj({<<"message", JStr(<<"x">>)>>}), StateObj(on),
           JNum, JNull, JStr(EmptyStr), JStr(<<"x">>) }

TransportErrors == {"InvalidURL", "ConnectionError", "ReadTimeout"}

Outcomes(bodies) ==
    { [exc |-> x, parsed |-> FALSE, value |-> JNull, flip |-> f] :
        x \in TransportErrors \cup {NoExc}, f \in BOOLEAN }
    \cup
    { [exc |-> NoExc, parsed |-> TRUE, value |-> b, flip |-> f] :
        b \in bodies, f \in BOOLEAN }

\* an invalid URL never reaches the hub
PostOutcomes == {o \in Outcomes(PostBodies) : o.exc = "InvalidURL" => ~o.flip}
\* a GET never switches the light
GetOutcomes == {o \in Outcomes(GetBodies) : ~o.flip}

\* response.json()
response_json(o) == IF o.parsed THEN Ok(o.value) ELSE Raise("JSONDecodeError")

----------------------------------------------------------------------------
(* What a handler does, as events. *)

Log(level, msg) == [e |-> "log", level |-> level, msg |-> msg]
Sleep(secs) == [e |-> "sleep", secs |-> secs]
Write(v) == [e |-> "write", value |-> v]
Message(v) == [e |-> "message", isLightOn |-> v]
Http(method, url, auth, body, verify) ==
    [e |-> "http", method |-> method, url |-> url, auth |-> auth,
     json |-> body, verify |-> verify]

Requests(tr) == SelectSeq(tr, LAMBDA x : x.e = "http")
Gets(tr) == SelectSeq(tr, LAMBDA x : x.e = "http" /\ x.method = "GET")
Posts(tr) == SelectSeq(tr, LAMBDA x : x.e = "http" /\ x.method = "POST")
Messages(tr) == SelectSeq(tr, LAMBDA x : x.e = "message")
Writes(tr) == SelectSeq(tr, LAMBDA x : x.e = "write")
Logged(tr, msg) == \E i \in 1..Len(tr) : tr[i].e = "log" /\ tr[i].msg = msg

MsgDisabled == "configuration is not complete, light controls are disabled"
MsgUnable == "unable to communicate with server, please check settings"
MsgCallExc == "exception while making API call"
MsgParseExc == "exception while parsing API result"
MsgSleeping == "new status not reported, sleeping..."
MsgCannot == "cannot toggle light"
MsgSwitched(result) == IF truthy(result) THEN "light switched ON" ELSE "light switched OFF"

----------------------------------------------------------------------------
(* The two remote operations.  self is [config, isLightOn]; hub is         *)
(* [post, get], the outcomes of the POST and of the GET if they are made.  *)
(* Each returns [result, raised, trace].  Debug log lines are left out,    *)
(* except the one that marks the follow-up query.                          *)

SleepSeconds == 1

Auth(cfg) == <<"Bearer ">> \o cfg[CONFIG_API_KEY]

R(result, exc, tr) == [result |-> result, raised |-> exc, trace |-> tr]

\* faulty variant: every state other than 'off' counts as on
_parse_status_NotOff(status) ==
    IF status.t = "string" /\ status.v = off THEN PyFalse ELSE PyTrue

_parse_status(status) ==
    IF status.t = "string" /\ status.v = on THEN PyTrue ELSE PyFalse

\* except (InvalidURL, ConnectionError)
UnreachableErrors == {"InvalidURL", "ConnectionError"}
\* except Exception, around requests.get and around the parse of its answer
QueryCallErrors == {"Exception"}
QueryParseErrors == {"Exception"}
\* except Exception, around requests.post and around the parse of its answer
ToggleCallErrors == {"Exception"}
\* faulty variant: only a body that is not JSON is absorbed
ToggleParseErrors_ValueErrorOnly == {"ValueError"}

ToggleParseErrors == {"Exception"}
\* faulty variant: an answer without the new state is never followed up
NotReportedErrors_Never == {}

\* faulty variant: only the empty array is taken as "not reported yet"
NotReportedErrors_IndexOnly == {"IndexError"}

\* except (IndexError, KeyError)
NotReportedErrors == {"IndexError", "KeyError"}

\* response.json()['state']
QueryStatus(o) ==
    LET js == response_json(o)
    IN  IF js.exc # NoExc THEN js ELSE GetKey(js.val, "state")

\* response.json()[0]['state']
ToggleStatus(o) ==
    LET js == response_json(o)
        el == IF js.exc # NoExc THEN js ELSE GetIndex0(js.val)
    IN  IF el.exc # NoExc THEN el ELSE GetKey(el.val, "state")

QueryRequest(cfg) ==
    Http("GET",
         cfg[CONFIG_ADDRESS] \o <<"/", "api", "/", "states", "/">>
            \o cfg[CONFIG_ENTITY_ID],
         Auth(cfg), {}, cfg[CONFIG_VERIFY_CERTIFICATE])

ToggleRequest(cfg) ==
    LET _entity_id == cfg[CONFIG_ENTITY_ID]
        _entity_domain == SplitDotFirst(_entity_id)
    IN  Http("POST",
             cfg[CONFIG_ADDRESS] \o <<"/", "api", "/", "services", "/">>
                \o _entity_domain \o <<"/", "toggle">>,
             Auth(cfg), {<<"entity_id", _entity_id>>},
             cfg[CONFIG_VERIFY_CERTIFICATE])

is_HA_state_on(self, hub) ==
    IF ~is_config_completed(self.config)
    THEN R(PyFalse, NoExc, <<Log("warning", MsgDisabled)>>)
    ELSE
      LET req == QueryRequest(self.config)
          o == hub.get
          st == QueryStatus(o)
      IN  IF o.exc # NoExc
          THEN IF Catches(UnreachableErrors, o.exc)
               THEN R(PyNone, NoExc, <<req, Log("error", MsgUnable)>>)
               ELSE IF Catches(QueryCallErrors, o.exc)
               THEN R(PyNone, NoExc, <<req, Log("exception", MsgCallExc)>>)
               ELSE R(PyNone, o.exc, <<req>>)
          ELSE IF st.exc # NoExc
          THEN IF Catches(QueryParseErrors, st.exc)
               THEN R(PyNone, NoExc, <<req, Log("exception", MsgParseExc)>>)
               ELSE R(PyNone, st.exc, <<req>>)
          ELSE R(_parse_status(st.val), NoExc, <<req>>)

\* lines 164-170: the outcome line, then return result
ToggleOutcome(old, r) ==
    IF r.raised # NoExc THEN r
    ELSE IF r.result # old
    THEN R(r.result, NoExc, Append(r.trace, Log("info", MsgSwitched(r.result))))
    ELSE R(r.result, NoExc, Append(r.trace, Log("warning", MsgCannot)))

\* lines 149-162: the POST came back with a response
ToggleParse(self, hub, req) ==
    LET st == ToggleStatus(hub.post)
        q == is_HA_state_on(self, hub)
    IN  IF st.exc # NoExc
        THEN IF Catches(NotReportedErrors, st.exc)
             THEN R(q.result, q.raised,
                    <<req, Log("debug", MsgSleeping), Sleep(SleepSeconds)>>
                        \o q.trace)
             ELSE IF Catches(ToggleParseErrors, st.exc)
             THEN R(PyNone, NoExc, <<req, Log("exception", MsgParseExc)>>)
             ELSE R(PyNone, st.exc, <<req>>)
        ELSE R(_parse_status(st.val), NoExc, <<req>>)

toggle_HA_state(self, hub) ==
    LET old == self.isLightOn IN
    IF ~is_config_completed(self.config)
    THEN R(PyNone, NoExc, <<Log("warning", MsgDisabled)>>)
    ELSE
      LET req == ToggleRequest(self.config)
          o == hub.post
      IN  IF o.exc # NoExc
          THEN IF Catches(UnreachableErrors, o.exc)
               THEN ToggleOutcome(old, R(PyNone, NoExc, <<req, Log("error", MsgUnable)>>))
               ELSE IF Catches(ToggleCallErrors, o.exc)
               THEN ToggleOutcome(old, R(PyNone, NoExc, <<req, Log("exception", MsgCallExc)>>))
               ELSE R(PyNone, o.exc, <<req>>)
          ELSE ToggleOutcome(old, ToggleParse(self, hub, req))

----------------------------------------------------------------------------
(* The plugin's methods.  Each returns [self, raised, trace, ret].         *)

H(self, exc, tr, r) == [self |-> self, raised |-> exc, trace |-> tr, ret |-> r]

\* faulty variant: the message is built before the cache is written
StoreAndSend_StaleMessage(self, r) ==
    IF r.raised # NoExc
    THEN H(self, r.raised, r.trace, RetNone)
    ELSE H([self EXCEPT !.isLightOn = r.result], NoExc,
           r.trace \o <<Message(self.isLightOn), Write(r.result)>>, RetNone)

\* the cache write and the plugin message that follow a remote operation
StoreAndSend(self, r) ==
    IF r.raised # NoExc
    THEN H(self, r.raised, r.trace, RetNone)
    ELSE LET new == [self EXCEPT !.isLightOn = r.result]
         IN  H(new, NoExc,
               r.trace \o <<Write(r.result), Message(new.isLightOn)>>, RetNone)

toggle_light(self, hub) == StoreAndSend(self, toggle_HA_state(self, hub))

refresh_light_status(self, hub) == StoreAndSend(self, is_HA_state_on(self, hub))

on_after_startup(self, hub) ==
    LET r == refresh_light_status(self, hub)
    IN  H(r.self, r.raised,
          <<Log("info", "OctoLightHA started, listening for GET requests")>>
              \o r.trace, RetNone)

\* request.args.get(key, default=..., type=str); args is a set of pairs
args_get(args, key, default) ==
    IF \E p \in args : p[1] = key
    THEN (CHOOSE p \in args : p[1] = key)[2]
    ELSE default

\* how flask.jsonify writes a Python value
json_literal(v) ==
    CASE v = PyTrue  -> "true"
      [] v = PyFalse -> "false"
      [] v = PyNone  -> "null"

\* flask.jsonify(state=...) and flask.jsonify(error=...)
jsonify_state(v) == {<<"state", json_literal(v)>>}
jsonify_error(msg) == {<<"error", msg>>}

\* return flask.jsonify(state=self.isLightOn), unless the call raised
Respond(r) ==
    IF r.raised # NoExc THEN r
    ELSE H(r.self, NoExc, r.trace, jsonify_state(r.self.isLightOn))

\* faulty variant: no default action
DefaultAction_Unset == ""

DefaultAction == "toggle"

\* faulty variant: turnOn toggles whatever the cache says
TurnOnToggles_Always(self) == TRUE

\* if not self.isLightOn / if self.isLightOn
TurnOnToggles(self) == ~truthy(self.isLightOn)
TurnOffToggles(self) == truthy(self.isLightOn)

\* faulty variant: an unknown action is answered with the state
Unrecognized_AsState(self) == H(self, NoExc, <<>>, jsonify_state(self.isLightOn))

\* the final else
Unrecognized(self) == H(self, NoExc, <<>>, jsonify_error("action not recognized"))

on_api_get(self, request, hub) ==
    LET action == args_get(request, "action", DefaultAction)
        skip == H(self, NoExc, <<>>, RetNone)
    IN  CASE action = "toggle" -> Respond(toggle_light(self, hub))
          [] action = "getState" -> Respond(refresh_light_status(self, hub))
          [] action = "turnOn" ->
                Respond(IF TurnOnToggles(self)
                        THEN toggle_light(self, hub) ELSE skip)
          [] action = "turnOff" ->
                Respond(IF TurnOffToggles(self)
                        THEN toggle_light(self, hub) ELSE skip)
          [] OTHER -> Unrecognized(self)

CLIENT_OPENED == "ClientOpened"

\* faulty variant: every host event refreshes
on_event_AnyEvent(self, event, hub) == refresh_light_status(self, hub)

on_event(self, event, hub) ==
    IF event = CLIENT_OPENED
    THEN refresh_light_status(self, hub)
    ELSE H(self, NoExc, <<>>, RetNone)

\* lines 232-233: the address is normalised before it is persisted
NormalizeData(data) ==
    IF CONFIG_ADDRESS \in DOMAIN data
    THEN [data EXCEPT ![CONFIG_ADDRESS] = re_sub_trailing_slashes(@)]
    ELSE data

\* SettingsPlugin.on_settings_save: the store takes the values of data
Persist(store, data) ==
    [k \in DOMAIN store |-> IF k \in DOMAIN data THEN data[k] ELSE store[k]]

----------------------------------------------------------------------------
(* The hub's side. *)

\* the light after a handler ran: the POST, if it was made, may switch it
HubAfter(light, tr, hub) ==
    IF Posts(tr) # <<>> /\ hub.post.flip THEN ~light ELSE light

IdleOutcome == [exc |-> NoExc, parsed |-> FALSE, value |-> JNull, flip |-> FALSE]

\* The hub behaviours that matter to a handler h: an outcome is chosen for
\* a request only if h makes it.
HubsFor(h(_)) ==
    LET posts == IF Posts(h([post |-> IdleOutcome, get |-> IdleOutcome]).trace) # <<>>
                 THEN PostOutcomes ELSE {IdleOutcome}
    IN  UNION { { [post |-> p, get |-> g] :
                    g \in IF Gets(h([post |-> p, get |-> IdleOutcome]).trace) # <<>>
                          THEN GetOutcomes ELSE {IdleOutcome} } : p \in posts }

----------------------------------------------------------------------------
(* The state machine: the host calls one handler at a time. *)

Self == [config |-> config, isLightOn |-> isLightOn]

LastMessageAfter(tr) ==
    IF Messages(tr) = <<>> THEN lastMessage
    ELSE Messages(tr)[Len(Messages(tr))].isLightOn

\* the state after handler `name` ran on `input` with result r
Ran(name, input, r, hub) ==
    /\ handler' = [name |-> name, input |-> input]
    /\ old_isLightOn' = isLightOn
    /\ isLightOn' = r.self.isLightOn
    /\ config' = r.self.config
    /\ trace' = r.trace
    /\ ret' = r.ret
    /\ raised' = r.raised
    /\ lastMessage' = LastMessageAfter(r.trace)
    /\ hubLight' = HubAfter(hubLight, r.trace, hub)
    /\ UNCHANGED <<threads, saver>>

RequestArgs == { {} } \cup { {<<"action", a>>} :
    a \in {"toggle", "getState", "turnOn", "turnOff", "blink", "Toggle", ""} }

HostEvents == {CLIENT_OPENED, "ClientClosed", "PrintStarted"}

\* the request threads, and one before it entered on_api_get
ThreadIds == {"request1", "request2"}
IdleThread ==
    [pc |-> "idle", old |-> PyNone, _entity_id |-> EmptyStr, url |-> EmptyStr,
     headers |-> EmptyStr, verify |-> FALSE, result |-> PyNone, ret |-> RetNone]

\* no settings save is running
IdleSaver == [pc |-> "idle", k |-> 0, before |-> get_settings_defaults]

Init ==
    /\ phase = "constructed"
    /\ settings \in {get_settings_defaults}
    /\ config = [k \in {} |-> EmptyStr]
    /\ isLightOn = PyFalse
    /\ hubLight \in BOOLEAN
    /\ handler = [name |-> "__init__", input |-> {}]
    /\ old_isLightOn = PyFalse
    /\ trace = <<>>
    /\ ret = RetNone
    /\ raised = NoExc
    /\ lastMessage = NoMessage
    /\ threads = [t \in ThreadIds |-> IdleThread]
    /\ saver = IdleSaver

OnSettingsInitialized ==
    /\ phase = "constructed"
    /\ phase' = "initialized"
    /\ Ran("on_settings_initialized", {},
           H([Self EXCEPT !.config = reload_settings(config, settings)],
             NoExc, <<>>, RetNone),
           [post |-> IdleOutcome, get |-> IdleOutcome])
    /\ UNCHANGED settings

OnAfterStartup ==
    /\ phase = "initialized"
    /\ phase' = "started"
    /\ \E hub \in HubsFor(LAMBDA h : on_after_startup(Self, h)) :
          LET r == on_after_startup(Self, hub)
          IN  Ran("on_after_startup", {}, r, hub)
    /\ UNCHANGED settings

OnApiGet ==
    /\ phase = "started"
    /\ \E request \in RequestArgs :
       \E hub \in HubsFor(LAMBDA h : on_api_get(Self, request, h)) :
          LET r == on_api_get(Self, request, hub)
          IN  Ran("on_api_get", request, r, hub)
    /\ UNCHANGED <<phase, settings>>

OnEvent ==
    /\ phase = "started"
    /\ \E event \in HostEvents :
       \E hub \in HubsFor(LAMBDA h : on_event(Self, event, h)) :
          LET r == on_event(Self, event, hub)
          IN  Ran("on_event", event, r, hub)
    /\ UNCHANGED <<phase, settings>>

\* what on_settings_save itself reads of its data: the address, if any
SaveInput(data) ==
    IF CONFIG_ADDRESS \in DOMAIN data
    THEN {<<CONFIG_ADDRESS, data[CONFIG_ADDRESS]>>} ELSE {}

SettingsSave(data) ==
    LET store == Persist(settings, NormalizeData(data))
    IN  /\ settings' = store
        /\ Ran("on_settings_save", SaveInput(data),
               H([Self EXCEPT !.config = reload_settings(config, store)],
                 NoExc, <<>>, RetNone),
               [post |-> IdleOutcome, get |-> IdleOutcome])

OnSettingsSave ==
    /\ phase = "started"
    /\ \E data \in SaveData : SettingsSave(data)
    /\ UNCHANGED phase

\* a save sent by an API client, with any address text
OnSettingsSaveByClient ==
    /\ phase = "started"
    /\ \E data \in AddressData : SettingsSave(data)
    /\ UNCHANGED phase

\* somebody else switches the light (a wall switch, the hub's own UI)
LightSwitchedElsewhere ==
    /\ hubLight' = ~hubLight
    /\ UNCHANGED <<phase, settings, config, isLightOn, handler, old_isLightOn,
                   trace, ret, raised, lastMessage, threads, saver>>

Next ==
    \/ OnSettingsInitialized
    \/ OnAfterStartup
    \/ OnApiGet
    \/ OnEvent
    \/ OnSettingsSave
    \/ LightSwitchedElsewhere

Spec == Init /\ [][Next]_vars

\* The settings alone: startup and saves, those of API clients included.
NextSettings ==
    \/ OnSettingsInitialized
    \/ OnAfterStartup
    \/ OnSettingsSave
    \/ OnSettingsSaveByClient

SpecSettings == Init /\ [][NextSettings]_vars

----------------------------------------------------------------------------
(* Requests served side by side.  The host serves each HTTP request on a   *)
(* thread of its own, so a GET ?action=toggle runs line by line beside     *)
(* other requests: every read or write of self.isLightOn and self.config   *)
(* is a step.  `trace` is here the log of all threads, in the order the    *)
(* events happened.  The hub answers every POST with the state it          *)
(* produced.                                                               *)

\* the state right after the first save of a complete configuration
InitThreads ==
    /\ phase = "started"
    /\ settings \in { c \in SaveData : DOMAIN c = ConfigKeys /\ is_config_completed(c)
                                        /\ c[CONFIG_ADDRESS] = HubAddress }
    /\ config = settings
    /\ isLightOn = PyFalse
    /\ hubLight \in BOOLEAN
    /\ handler = [name |-> "on_settings_save",
                  input |-> {<<CONFIG_ADDRESS, HubAddress>>}]
    /\ old_isLightOn = PyFalse
    /\ trace = <<>>
    /\ ret = RetNone
    /\ raised = NoExc
    /\ lastMessage = PyFalse
    /\ threads = [t \in ThreadIds |-> IdleThread]
    /\ saver = IdleSaver

\* thread t moves to pc with the local variables of l
Goto(t, pc, l) == threads' = [threads EXCEPT ![t] = [l EXCEPT !.pc = pc]]

\* no lock is taken on the way into toggle_light
MayEnter_Locked(t) ==
    \A u \in ThreadIds \ {t} : threads[u].pc \in {"idle", "done"}

MayEnter(t) == TRUE

\* lines 184-191, 172-173, 122-124: action is 'toggle'; the toggle reads
\* the cache
Enter(t) ==
    /\ threads[t].pc = "idle"
    /\ MayEnter(t)
    /\ Goto(t, "check", [threads[t] EXCEPT !.old = isLightOn])
    /\ UNCHANGED <<phase, settings, config, isLightOn, hubLight, handler,
                   old_isLightOn, trace, ret, raised, lastMessage, saver>>

\* lines 126-128
CheckConfig(t) ==
    /\ threads[t].pc = "check"
    /\ IF is_config_completed(config)
       THEN Goto(t, "entity", threads[t]) /\ UNCHANGED trace
       ELSE /\ Goto(t, "write", [threads[t] EXCEPT !.result = PyNone])
            /\ trace' = Append(trace, Log("warning", MsgDisabled))
    /\ UNCHANGED <<phase, settings, config, isLightOn, hubLight, handler,
                   old_isLightOn, ret, raised, lastMessage, saver>>

\* line 130
ReadEntity(t) ==
    /\ threads[t].pc = "entity"
    /\ Goto(t, "url", [threads[t] EXCEPT !._entity_id = config[CONFIG_ENTITY_ID]])
    /\ UNCHANGED <<phase, settings, config, isLightOn, hubLight, handler,
                   old_isLightOn, trace, ret, raised, lastMessage, saver>>

\* lines 131-133
BuildUrl(t) ==
    /\ threads[t].pc = "url"
    /\ Goto(t, "headers",
            [threads[t] EXCEPT !.url =
                config[CONFIG_ADDRESS] \o <<"/", "api", "/", "services", "/">>
                   \o SplitDotFirst(threads[t]._entity_id) \o <<"/", "toggle">>])
    /\ UNCHANGED <<phase, settings, config, isLightOn, hubLight, handler,
                   old_isLightOn, trace, ret, raised, lastMessage, saver>>

\* line 134
BuildHeaders(t) ==
    /\ threads[t].pc = "headers"
    /\ Goto(t, "verify", [threads[t] EXCEPT !.headers = Auth(config)])
    /\ UNCHANGED <<phase, settings, config, isLightOn, hubLight, handler,
                   old_isLightOn, trace, ret, raised, lastMessage, saver>>

\* lines 135-136
ReadVerify(t) ==
    /\ threads[t].pc = "verify"
    /\ Goto(t, "post",
            [threads[t] EXCEPT !.verify = config[CONFIG_VERIFY_CERTIFICATE]])
    /\ UNCHANGED <<phase, settings, config, isLightOn, hubLight, handler,
                   old_isLightOn, trace, ret, raised, lastMessage, saver>>

\* lines 138-170: the POST, which switches the light and is answered with
\* the new state, the parse of the answer and the outcome line
Post(t) ==
    /\ threads[t].pc = "post"
    /\ LET l == threads[t]
           req == Http("POST", l.url, l.headers,
                       {<<"entity_id", l._entity_id>>}, l.verify)
           hub == [post |-> [exc |-> NoExc, parsed |-> TRUE, flip |-> TRUE,
                             value |-> JArr(<<StateObj(IF hubLight THEN off ELSE on)>>)],
                   get |-> IdleOutcome]
           r == ToggleOutcome(l.old, ToggleParse(Self, hub, req))
       IN  /\ hubLight' = HubAfter(hubLight, r.trace, hub)
           /\ trace' = trace \o r.trace
           /\ Goto(t, "write", [l EXCEPT !.result = r.result])
    /\ UNCHANGED <<phase, settings, config, isLightOn, handler,
                   old_isLightOn, ret, raised, lastMessage, saver>>

\* line 173: self.isLightOn = <result of toggle_HA_state>
WriteCache(t) ==
    /\ threads[t].pc = "write"
    /\ isLightOn' = threads[t].result
    /\ trace' = Append(trace, Write(threads[t].result))
    /\ Goto(t, "send", threads[t])
    /\ UNCHANGED <<phase, settings, config, hubLight, handler,
                   old_isLightOn, ret, raised, lastMessage, saver>>

\* line 174: the message carries self.isLightOn as it is now
SendMessage(t) ==
    /\ threads[t].pc = "send"
    /\ lastMessage' = isLightOn
    /\ trace' = Append(trace, Message(isLightOn))
    /\ Goto(t, "respond", threads[t])
    /\ UNCHANGED <<phase, settings, config, isLightOn, hubLight, handler,
                   old_isLightOn, ret, raised, saver>>

\* lines 193-196: the response carries self.isLightOn as it is now
RespondState(t) ==
    /\ threads[t].pc = "respond"
    /\ Goto(t, "done", [threads[t] EXCEPT !.ret = jsonify_state(isLightOn)])
    /\ UNCHANGED <<phase, settings, config, isLightOn, hubLight, handler,
                   old_isLightOn, trace, ret, raised, lastMessage, saver>>

\* one line of the toggle request served by thread t
RequestStep(t) ==
    \/ Enter(t)
    \/ CheckConfig(t)
    \/ ReadEntity(t)
    \/ BuildUrl(t)
    \/ BuildHeaders(t)
    \/ ReadVerify(t)
    \/ Post(t)
    \/ WriteCache(t)
    \/ SendMessage(t)
    \/ RespondState(t)

\* two toggle requests side by side
NextRace == \E t \in ThreadIds : RequestStep(t)

SpecRace == InitThreads /\ [][NextRace]_vars

(* A settings save beside a toggle request.  on_settings_save runs on the  *)
(* thread of the settings request; reload_settings assigns self.config[k]  *)
(* key by key, in the order of get_settings_defaults().                    *)

\* the order of the keys in the dict of lines 41-46
ReloadOrder == <<CONFIG_ADDRESS, CONFIG_API_KEY, CONFIG_ENTITY_ID,
                 CONFIG_VERIFY_CERTIFICATE>>

\* lines 232-235: the data is normalised and persisted; `before` remembers
\* the configuration that was saved until now
SavePersist ==
    /\ saver.pc = "idle"
    /\ \E data \in SaveData :
          settings' = Persist(settings, NormalizeData(data))
    /\ saver' = [pc |-> "reload", k |-> 1, before |-> settings]
    /\ UNCHANGED <<phase, config, isLightOn, hubLight, handler, old_isLightOn,
                   trace, ret, raised, lastMessage, threads>>

\* lines 52-62, one turn of the loop: self.config[k] = v
ReloadKey ==
    /\ saver.pc = "reload"
    /\ LET k == ReloadOrder[saver.k]
       IN  config' = [config EXCEPT ![k] = settings[k]]
    /\ saver' = IF saver.k = Len(ReloadOrder)
                THEN [saver EXCEPT !.pc = "done"]
                ELSE [saver EXCEPT !.k = @ + 1]
    /\ UNCHANGED <<phase, settings, isLightOn, hubLight, handler, old_isLightOn,
                   trace, ret, raised, lastMessage, threads>>

NextSave ==
    \/ RequestStep("request1")
    \/ SavePersist
    \/ ReloadKey

SpecSave == InitThreads /\ [][NextSave]_vars

----------------------------------------------------------------------------
(* Vocabulary of the properties. *)

\* every behaviour of the hub towards one handler call
AllHubs == [post : PostOutcomes, get : GetOutcomes]

\* at least one of address, entity_id, api_key is empty or absent
ConfigMissing(cfg) ==
    \E k \in {CONFIG_ADDRESS, CONFIG_ENTITY_ID, CONFIG_API_KEY} :
        k \notin DOMAIN cfg \/ cfg[k] = EmptyStr

ActionOf(h) == args_get(h.input, "action", "toggle")
IsApi(acts) == handler.name = "on_api_get" /\ ActionOf(handler) \in acts

\* the last handler ran a remote operation that failed: a transport error
\* or an answer that could not be parsed was logged
FailedRemote(tr) ==
    \E i \in 1..Len(tr) : tr[i].e = "log" /\ tr[i].level \in {"error", "exception"}

PyBool(v) == v \in {PyTrue, PyFalse}

----------------------------------------------------------------------------
(* C1: with address, entity_id or api_key empty or absent, is_HA_state_on  *)
(* and toggle_HA_state make no HTTP request, whatever the hub would        *)
(* answer, whatever verify_certificate and the cache are; the query        *)
(* returns False and the toggle returns None.  The handler that just ran   *)
(* under such a configuration made no request either.                      *)
C1_DisabledWithoutRequest ==
    ConfigMissing(config) =>
        /\ \A hub \in AllHubs :
              LET q == is_HA_state_on(Self, hub)
                  t == toggle_HA_state(Self, hub)
              IN  /\ Requests(q.trace) = <<>> /\ q.result = PyFalse
                  /\ Requests(t.trace) = <<>> /\ t.result = PyNone
                  /\ q.raised = NoExc /\ t.raised = NoExc
        /\ handler.name \in {"on_api_get", "on_event", "on_after_startup"}
              => Requests(trace) = <<>>

\* a toggle request was served with the API key missing and certificate
\* verification on, from a cache that said "on"
C1_Witness ==
    /\ IsApi({"toggle"})
    /\ config[CONFIG_API_KEY] = EmptyStr
    /\ config[CONFIG_ADDRESS] # EmptyStr /\ config[CONFIG_ENTITY_ID] # EmptyStr
    /\ config[CONFIG_VERIFY_CERTIFICATE]
    /\ old_isLightOn = PyTrue
    /\ Logged(trace, MsgDisabled)
    /\ Requests(trace) = <<>>

(* C2: with an incomplete configuration, toggle_light (reached by the      *)
(* actions toggle, turnOn and turnOff) leaves the cached isLightOn as it   *)
(* was.                                                                    *)
C2_DisabledToggleKeepsCache ==
    ( /\ IsApi({"toggle", "turnOn", "turnOff"})
      /\ ConfigMissing(config) )
        => isLightOn = old_isLightOn

(* C3: a query or toggle that ends in Unknown leaves the cached isLightOn  *)
(* as it was, and Unknown (None) is never what the cache holds after it.   *)
C3_FailureKeepsCache ==
    ( /\ handler.name \in {"on_api_get", "on_event", "on_after_startup"}
      /\ FailedRemote(trace) )
        => isLightOn = old_isLightOn /\ isLightOn # PyNone

(* C4: the cached isLightOn, the state field of every API response and     *)
(* the isLightOn field of every plugin message are booleans.               *)
C4_AlwaysBoolean ==
    /\ PyBool(isLightOn)
    /\ \A p \in ret : p[1] = "state" => p[2] \in {"true", "false"}
    /\ \A i \in 1..Len(trace) : trace[i].e = "message" => PyBool(trace[i].isLightOn)

----------------------------------------------------------------------------
(* Shapes of the toggle call's answer. *)

HasKey(j, key) == j.t = "object" /\ \E p \in j.v : p[1] = key

\* the parsed body has no element 0: an empty array or string, or an object
LacksIndex0(j) == (j.t \in {"array", "string"} /\ Len(j.v) = 0) \/ j.t = "object"

\* element 0 is an object without a state key
LacksStateKey(j) ==
    j.t = "array" /\ Len(j.v) > 0 /\ j.v[1].t = "object" /\ ~HasKey(j.v[1], "state")

\* element 0 is an object with a state key
CarriesState(j) == j.t = "array" /\ Len(j.v) > 0 /\ HasKey(j.v[1], "state")

Answered(o) == o.exc = NoExc /\ o.parsed

\* in tr a POST comes first, then a sleep, then a GET
PostSleepGet(tr) ==
    \E i, j, k \in 1..Len(tr) :
        /\ i < j /\ j < k
        /\ tr[i].e = "http" /\ tr[i].method = "POST"
        /\ tr[j].e = "sleep"
        /\ tr[k].e = "http" /\ tr[k].method = "GET"

ApiRequest(a) == {<<"action", a>>}

(* C5: a toggle whose POST is answered with a body that has no element 0,  *)
(* or whose element 0 has no state key, sleeps and then makes exactly one  *)
(* GET and returns what that query returns (None if it fails); a toggle    *)
(* whose answer carries [0].state makes no GET; no toggle, and no handler, *)
(* makes more than one POST or more than one GET.                          *)
C5_SingleFollowUpQuery ==
    /\ Len(Posts(trace)) <= 1 /\ Len(Gets(trace)) <= 1
    /\ ~ConfigMissing(config) =>
          \A hub \in AllHubs :
             LET t == toggle_HA_state(Self, hub)
                 q == is_HA_state_on(Self, hub)
                 body == hub.post.value
             IN  /\ Len(Posts(t.trace)) = 1 /\ Len(Gets(t.trace)) <= 1
                 /\ (Answered(hub.post) /\ (LacksIndex0(body) \/ LacksStateKey(body)))
                       => /\ Len(Gets(t.trace)) = 1
                          /\ PostSleepGet(t.trace)
                          /\ t.result = q.result
                          /\ ~Answered(hub.get) => t.result = PyNone
                 /\ (Answered(hub.post) /\ CarriesState(body))
                       => Gets(t.trace) = <<>>

\* a toggle request went through the follow-up query and adopted "on"
C5_Witness ==
    /\ IsApi({"toggle"})
    /\ Logged(trace, MsgSleeping)
    /\ Len(Posts(trace)) = 1 /\ Len(Gets(trace)) = 1
    /\ old_isLightOn = PyFalse /\ isLightOn = PyTrue

Quiet(r) ==
    /\ Requests(r.trace) = <<>> /\ Messages(r.trace) = <<>> /\ Writes(r.trace) = <<>>
    /\ r.self.isLightOn = isLightOn

SameEffect(a, b) ==
    /\ Requests(a.trace) = Requests(b.trace)
    /\ Messages(a.trace) = Messages(b.trace)
    /\ a.self.isLightOn = b.self.isLightOn
    /\ a.ret = b.ret

(* C6: turnOn with the cache true and turnOff with the cache false make no *)
(* HTTP request, send no message and leave the cache alone; turnOn with    *)
(* the cache false and turnOff with the cache true make the requests of a  *)
(* toggle request on the same hub behaviour, with its cache value and its  *)
(* response.                                                               *)
C6_SetStateConditional ==
    /\ \A hub \in HubsFor(LAMBDA h : on_api_get(Self, ApiRequest("toggle"), h)) :
          LET tg == on_api_get(Self, ApiRequest("toggle"), hub)
              turnOn == on_api_get(Self, ApiRequest("turnOn"), hub)
              turnOff == on_api_get(Self, ApiRequest("turnOff"), hub)
          IN  /\ isLightOn = PyTrue => Quiet(turnOn) /\ SameEffect(turnOff, tg)
              /\ isLightOn = PyFalse => Quiet(turnOff) /\ SameEffect(turnOn, tg)
    /\ ( \/ IsApi({"turnOn"}) /\ old_isLightOn = PyTrue
         \/ IsApi({"turnOff"}) /\ old_isLightOn = PyFalse )
          => /\ Requests(trace) = <<>> /\ Messages(trace) = <<>>
             /\ isLightOn = old_isLightOn

\* a turnOn request was served from a cache that said "on", with a complete
\* configuration: nothing was sent
C6_Witness ==
    /\ IsApi({"turnOn"})
    /\ ~ConfigMissing(config)
    /\ old_isLightOn = PyTrue /\ isLightOn = PyTrue
    /\ trace = <<>>
    /\ ret = jsonify_state(PyTrue)

FourActions == {"toggle", "getState", "turnOn", "turnOff"}

(* C7: whatever the hub does and whatever the configuration is,            *)
(* is_HA_state_on, toggle_HA_state and on_api_get for the four actions let *)
(* no exception escape and return a result.                                *)
C7_NeverRaises ==
    /\ raised = NoExc
    /\ \A g \in GetOutcomes :
          LET q == is_HA_state_on(Self, [post |-> IdleOutcome, get |-> g])
          IN  q.raised = NoExc /\ q.result \in PyValues
    /\ \A hub \in HubsFor(LAMBDA h : toggle_HA_state(Self, h)) :
          LET t == toggle_HA_state(Self, hub)
          IN  t.raised = NoExc /\ t.result \in PyValues
    /\ \A a \in FourActions :
          \A hub \in HubsFor(LAMBDA h : on_api_get(Self, ApiRequest(a), h)) :
             LET r == on_api_get(Self, ApiRequest(a), hub)
             IN  r.raised = NoExc /\ \E p \in r.ret : p[1] = "state"

\* a toggle request whose follow-up query could not be parsed was answered
C7_Witness ==
    /\ IsApi({"toggle"})
    /\ Logged(trace, MsgSleeping) /\ Logged(trace, MsgParseExc)
    /\ raised = NoExc
    /\ \E p \in ret : p[1] = "state"

(* C8: a request whose action is none of the four is answered with         *)
(* {"error": "action not recognized"} and no state field; it makes no HTTP *)
(* request, sends no message and leaves the cache and the configuration    *)
(* as they were.                                                           *)
C8_UnrecognizedAction ==
    /\ \A request \in RequestArgs :
          (request # {} /\ ActionOf([input |-> request]) \notin FourActions) =>
             \A hub \in AllHubs :
                LET r == on_api_get(Self, request, hub)
                IN  /\ r.ret = {<<"error", "action not recognized">>}
                    /\ Requests(r.trace) = <<>> /\ Messages(r.trace) = <<>>
                    /\ Writes(r.trace) = <<>>
                    /\ r.self = Self
                    /\ r.raised = NoExc
    /\ (handler.name = "on_api_get" /\ ActionOf(handler) \notin FourActions)
          => /\ ret = {<<"error", "action not recognized">>}
             /\ trace = <<>>
             /\ isLightOn = old_isLightOn

\* action=blink was served under a complete configuration
C8_Witness ==
    /\ IsApi({"blink"})
    /\ ~ConfigMissing(config)
    /\ ret = {<<"error", "action not recognized">>}
    /\ trace = <<>>
    /\ isLightOn = old_isLightOn

(* C9: a request without an action parameter does what a request with      *)
(* action=toggle does on the same cache, configuration and hub behaviour:  *)
(* the same requests, cache value, message and state response.             *)
C9_MissingActionIsToggle ==
    \A hub \in HubsFor(LAMBDA h : on_api_get(Self, ApiRequest("toggle"), h)) :
       LET none == on_api_get(Self, {}, hub)
           tg == on_api_get(Self, ApiRequest("toggle"), hub)
       IN  /\ none = tg
           /\ \E p \in none.ret : p[1] = "state"
           /\ ~\E p \in none.ret : p[1] = "error"
           /\ ~ConfigMissing(config) => Len(Posts(none.trace)) = 1

\* a request without an action switched the light on
C9_Witness ==
    /\ handler.name = "on_api_get" /\ handler.input = {}
    /\ Len(Posts(trace)) = 1
    /\ Len(Messages(trace)) = 1
    /\ old_isLightOn = PyFalse /\ isLightOn = PyTrue
    /\ ret = jsonify_state(PyTrue)

\* the last handler called refresh_light_status or toggle_light
RefreshedOrToggled ==
    \/ handler.name = "on_after_startup"
    \/ handler.name = "on_event" /\ handler.input = CLIENT_OPENED
    \/ IsApi({"toggle", "getState"})
    \/ IsApi({"turnOn"}) /\ old_isLightOn # PyTrue
    \/ IsApi({"turnOff"}) /\ old_isLightOn = PyTrue

(* C10: a handler that refreshes or toggles ends with one cache write      *)
(* followed by one plugin message carrying the value written; other        *)
(* handlers send none; so once started, the last message sent carries the  *)
(* cached isLightOn.                                                       *)
C10_BroadcastFollowsWrite ==
    /\ RefreshedOrToggled =>
          /\ Len(Writes(trace)) = 1 /\ Len(Messages(trace)) = 1
          /\ Len(trace) >= 2
          /\ trace[Len(trace) - 1] = Write(isLightOn)
          /\ trace[Len(trace)] = Message(isLightOn)
    /\ ~RefreshedOrToggled => Messages(trace) = <<>> /\ Writes(trace) = <<>>
    /\ phase = "started" => lastMessage = isLightOn

\* a toggle request switched the cache from off to on and said so
C10_Witness ==
    /\ IsApi({"toggle"})
    /\ old_isLightOn = PyFalse /\ isLightOn = PyTrue
    /\ Len(Messages(trace)) = 1
    /\ lastMessage = PyTrue

----------------------------------------------------------------------------
\* the hub behaviours towards a handler that can only query
QueryHubs == { [post |-> IdleOutcome, get |-> g] : g \in GetOutcomes }

\* tr is one state refresh: the query's events, one cache write of its
\* result and one message carrying it
OneRefresh(tr, q) == tr = q.trace \o <<Write(q.result), Message(q.result)>>

(* C11: on_after_startup and every CLIENT_OPENED event do exactly one      *)
(* refresh (one is_HA_state_on, one cache write, one message) and no POST; *)
(* any other host event makes no request, sends no message and leaves the  *)
(* cache alone; until the startup refresh the cache is False.              *)
C11_StartupAndClientOpenedRefresh ==
    /\ \A hub \in QueryHubs :
          LET q == is_HA_state_on(Self, hub)
              opened == on_event(Self, CLIENT_OPENED, hub)
              startup == on_after_startup(Self, hub)
          IN  /\ OneRefresh(opened.trace, q)
              /\ opened.self.isLightOn = q.result
              /\ OneRefresh(SelectSeq(startup.trace, LAMBDA x : x.e # "log"),
                            [q EXCEPT !.trace = Requests(q.trace)])
              /\ startup.self.isLightOn = q.result
              /\ Len(Gets(q.trace)) = IF ConfigMissing(config) THEN 0 ELSE 1
              /\ \A event \in HostEvents \ {CLIENT_OPENED} :
                    LET r == on_event(Self, event, hub)
                    IN  r.trace = <<>> /\ r.self = Self
    /\ ( \/ handler.name = "on_after_startup"
         \/ handler.name = "on_event" /\ handler.input = CLIENT_OPENED )
          => /\ Posts(trace) = <<>>
             /\ Len(Gets(trace)) = IF ConfigMissing(config) THEN 0 ELSE 1
             /\ Len(Writes(trace)) = 1 /\ Len(Messages(trace)) = 1
    /\ (handler.name = "on_event" /\ handler.input # CLIENT_OPENED)
          => trace = <<>> /\ isLightOn = old_isLightOn
    /\ phase \in {"constructed", "initialized"} => isLightOn = PyFalse

\* a client connected and the refresh found the light on
C11_Witness ==
    /\ handler.name = "on_event" /\ handler.input = CLIENT_OPENED
    /\ ~ConfigMissing(config)
    /\ Len(Gets(trace)) = 1 /\ Posts(trace) = <<>>
    /\ old_isLightOn = PyFalse /\ isLightOn = PyTrue
    /\ lastMessage = PyTrue

----------------------------------------------------------------------------
EndsWithSlash(s) == Len(s) > 0 /\ s[Len(s)] = "/"

\* b is a with every trailing '/' removed and no other change
TrailingSlashesRemoved(a, b) ==
    /\ Len(b) <= Len(a) /\ b = SubSeq(a, 1, Len(b))
    /\ \A i \in Len(b) + 1..Len(a) : a[i] = "/"
    /\ ~EndsWithSlash(b)

\* the address the last on_settings_save was given
SavedAddress == (CHOOSE p \in handler.input : p[1] = CONFIG_ADDRESS)[2]

(* C12: after on_settings_save with an address in its data, the persisted  *)
(* and the reloaded address are that address with every trailing '/'       *)
(* removed and nothing else changed; normalising again changes nothing;    *)
(* the configured address does not end with '/'.                           *)
C12_AddressNormalizedOnSave ==
    (handler.name = "on_settings_save" /\ handler.input # {})
       => /\ TrailingSlashesRemoved(SavedAddress, settings[CONFIG_ADDRESS])
          /\ config[CONFIG_ADDRESS] = settings[CONFIG_ADDRESS]
          /\ re_sub_trailing_slashes(settings[CONFIG_ADDRESS])
                = settings[CONFIG_ADDRESS]
          /\ ~EndsWithSlash(config[CONFIG_ADDRESS])

----------------------------------------------------------------------------
\* the hub answers with body b and, if flip, switches the light
Answer(b, flip) == [exc |-> NoExc, parsed |-> TRUE, value |-> b, flip |-> flip]

\* what the state string s stands for
StateOf(s) == IF s = on THEN PyTrue ELSE PyFalse

(* C13: with a complete configuration, a state string reported by the hub  *)
(* gives the same result in the query (GET body {state: s}) and in the     *)
(* toggle (POST body [{state: s}]): True for exactly 'on', False for every *)
(* other string, never None.                                               *)
C13_StateStringMapping ==
    ~ConfigMissing(config) =>
       \A s \in StateStrings :
          LET q == is_HA_state_on(Self,
                     [post |-> IdleOutcome, get |-> Answer(StateObj(s), FALSE)])
          IN  /\ q.result = StateOf(s) /\ q.raised = NoExc
              /\ \A flip \in BOOLEAN :
                    LET t == toggle_HA_state(Self,
                               [post |-> Answer(JArr(<<StateObj(s)>>), flip),
                                get |-> IdleOutcome])
                    IN  /\ t.result = q.result /\ t.raised = NoExc
                        /\ Gets(t.trace) = <<>>

\* a toggle whose POST was answered with a state other than 'on', served
\* from a cache that said on: the cache now says off
C13_Witness ==
    /\ IsApi({"toggle"})
    /\ ~ConfigMissing(config)
    /\ Len(Posts(trace)) = 1 /\ Gets(trace) = <<>>
    /\ ~FailedRemote(trace)
    /\ old_isLightOn = PyTrue /\ isLightOn = PyFalse

----------------------------------------------------------------------------
\* entity ids a configuration can hold, besides those of EntityInputs
EntityIds ==
    (EntityInputs \ {EmptyStr})
    \cup { <<"switch", ".", "printer", ".", "lamp">>, <<".", "lamp">>,
           <<"light", ".">>, <<"a", ".", ".", "b">> }

\* d is the part of e before its first '.', or e itself if e has no '.'
IsDomainOf(d, e) ==
    /\ Len(d) <= Len(e) /\ d = SubSeq(e, 1, Len(d))
    /\ \A i \in 1..Len(d) : d[i] # "."
    /\ Len(d) < Len(e) => e[Len(d) + 1] = "."

ServicesPath == <<"/", "api", "/", "services", "/">>
StatesPath == <<"/", "api", "/", "states", "/">>

(* C14: with a complete configuration and any non-empty entity_id, the     *)
(* toggle is a POST to {address}/api/services/{domain}/toggle, domain being*)
(* the part of entity_id before its first '.' (all of it without a '.'),   *)
(* with the JSON body {entity_id: <the full entity_id>}; the query is a GET*)
(* to {address}/api/states/<the full entity_id>.  Every request a handler  *)
(* made is one of these two for its configuration.                         *)
C14_RequestUrls ==
    ~ConfigMissing(config) =>
       /\ \A e \in EntityIds :
             LET cfg == [config EXCEPT ![CONFIG_ENTITY_ID] = e]
                 post == ToggleRequest(cfg)
                 get == QueryRequest(cfg)
             IN  /\ post.method = "POST"
                 /\ \E n \in 0..Len(e) :
                       /\ IsDomainOf(SubSeq(e, 1, n), e)
                       /\ post.url = cfg[CONFIG_ADDRESS] \o ServicesPath
                                       \o SubSeq(e, 1, n) \o <<"/", "toggle">>
                 /\ post.json = {<<"entity_id", e>>}
                 /\ get.method = "GET"
                 /\ get.url = cfg[CONFIG_ADDRESS] \o StatesPath \o e
       /\ \A i \in 1..Len(trace) :
             trace[i].e = "http" =>
                trace[i] = IF trace[i].method = "POST"
                           THEN ToggleRequest(config) ELSE QueryRequest(config)

\* a toggle for light.kitchen went to the light domain
C14_Witness ==
    /\ IsApi({"toggle"})
    /\ config[CONFIG_ENTITY_ID] = <<"light", ".", "kitchen">>
    /\ Len(Posts(trace)) = 1
    /\ Posts(trace)[1].url = HubAddress \o ServicesPath \o <<"light", "/", "toggle">>
    /\ Posts(trace)[1].json = {<<"entity_id", <<"light", ".", "kitchen">>>>}

----------------------------------------------------------------------------
(* A faithful hub: every toggle call switches the light, and the state the *)
(* hub reports is the state the light is in when it answers.               *)

StateString(light) == IF light THEN on ELSE off
FromBoolean(light) == IF light THEN PyTrue ELSE PyFalse

\* towards a toggle of a light that is `light`: the POST switches it and
\* answers with the new state or without any; a GET after it reports the
\* new state
FaithfulToggleHubs(light) ==
    { [post |-> Answer(b, TRUE),
       get |-> Answer(StateObj(StateString(~light)), FALSE)] :
      b \in {JArr(<<StateObj(StateString(~light))>>), JArr(<<>>),
             JArr(<<JObj({})>>)} }

\* towards a query of a light that is `light`
FaithfulQueryHub(light) ==
    [post |-> IdleOutcome, get |-> Answer(StateObj(StateString(light)), FALSE)]

(* C15: with a complete configuration and handlers run one at a time, in   *)
(* every reachable state (a stale or None cache included) a toggle served  *)
(* by a faithful hub switches the light and leaves the cache, the message  *)
(* and the response equal to the light's new state; a getState or a        *)
(* CLIENT_OPENED refresh served by a faithful hub leaves them equal to the *)
(* light's state.                                                          *)
C15_CacheFollowsFaithfulHub ==
    (phase = "started" /\ ~ConfigMissing(config)) =>
       /\ \A hub \in FaithfulToggleHubs(hubLight) :
             LET r == on_api_get(Self, ApiRequest("toggle"), hub)
                 light == HubAfter(hubLight, r.trace, hub)
             IN  /\ light = ~hubLight
                 /\ r.self.isLightOn = FromBoolean(light)
                 /\ LastMessageAfter(r.trace) = FromBoolean(light)
                 /\ r.ret = jsonify_state(FromBoolean(light))
       /\ LET hub == FaithfulQueryHub(hubLight)
              g == on_api_get(Self, ApiRequest("getState"), hub)
              o == on_event(Self, CLIENT_OPENED, hub)
          IN  /\ HubAfter(hubLight, g.trace, hub) = hubLight
              /\ g.self.isLightOn = FromBoolean(hubLight)
              /\ g.ret = jsonify_state(FromBoolean(hubLight))
              /\ o.self.isLightOn = FromBoolean(hubLight)
              /\ LastMessageAfter(o.trace) = FromBoolean(hubLight)

\* the state a faithful hub leaves after a toggle that started from a stale
\* cache and whose POST answer carried no state: the follow-up query set
\* the cache to the light's new state
C15_Witness ==
    /\ IsApi({"toggle"})
    /\ ~ConfigMissing(config)
    /\ Logged(trace, MsgSleeping)
    /\ old_isLightOn = FromBoolean(hubLight)
    /\ isLightOn = FromBoolean(hubLight)
    /\ \E hub \in FaithfulToggleHubs(~hubLight) :
          LET r == on_api_get([config |-> config, isLightOn |-> old_isLightOn],
                              handler.input, hub)
          IN  /\ r.trace = trace /\ r.ret = ret
              /\ r.self.isLightOn = isLightOn
              /\ HubAfter(~hubLight, r.trace, hub) = hubLight

----------------------------------------------------------------------------
(* C16: in every reachable state, a turnOn request makes the toggle call   *)
(* only when the light is off and so never switches a light that is on to  *)
(* off; a turnOff request makes it only when the light is on and never     *)
(* switches a light that is off to on.                                     *)
C16_SetStateNeverReverses ==
    phase = "started" =>
       /\ \A hub \in HubsFor(LAMBDA h : on_api_get(Self, ApiRequest("turnOn"), h)) :
             LET r == on_api_get(Self, ApiRequest("turnOn"), hub)
             IN  /\ Posts(r.trace) # <<>> => ~hubLight
                 /\ hubLight => HubAfter(hubLight, r.trace, hub)
       /\ \A hub \in HubsFor(LAMBDA h : on_api_get(Self, ApiRequest("turnOff"), h)) :
             LET r == on_api_get(Self, ApiRequest("turnOff"), hub)
             IN  /\ Posts(r.trace) # <<>> => hubLight
                 /\ ~hubLight => ~HubAfter(hubLight, r.trace, hub)

----------------------------------------------------------------------------
AllDone == \A t \in ThreadIds : threads[t].pc = "done"

(* C17: two toggle requests served side by side against a hub that answers *)
(* each POST with the state it produced.  No lock keeps a request out of   *)
(* toggle_light while the other is inside.  When both have completed, each *)
(* made one POST built from the configuration, their results are the two   *)
(* opposite states, the cache and the last message hold the result written *)
(* last, and the cache differs from the light exactly when the request     *)
(* whose POST came last wrote first.                                       *)
C17_UnlockedToggleRace ==
    /\ \A t \in ThreadIds : threads[t].pc = "idle" => ENABLED Enter(t)
    /\ \A i \in 1..Len(trace) :
          trace[i].e = "http" => trace[i] = ToggleRequest(config)
    /\ AllDone =>
          LET w == Writes(trace)
          IN  /\ Len(Posts(trace)) = 2 /\ Len(w) = 2
              /\ {threads[t].result : t \in ThreadIds} = {PyTrue, PyFalse}
              /\ isLightOn = w[2].value
              /\ lastMessage = isLightOn
              /\ isLightOn # FromBoolean(hubLight)
                    <=> w[1].value = FromBoolean(hubLight)

\* both requests have completed and the cache and the last message say the
\* opposite of the light
C17_Witness ==
    /\ AllDone
    /\ Len(Posts(trace)) = 2
    /\ isLightOn # FromBoolean(hubLight)
    /\ lastMessage # FromBoolean(hubLight)
    /\ \E t \in ThreadIds : threads[t].ret # jsonify_state(FromBoolean(hubLight))

----------------------------------------------------------------------------
\* the configurations that have been saved: the one persisted now and, once
\* a save has begun, the one it replaced
SavedConfigurations ==
    {settings} \cup (IF saver.pc = "idle" THEN {} ELSE {saver.before})

(* C18: when on_settings_save has completed, each of the four fields of    *)
(* self.config equals the persisted setting; and every request a toggle    *)
(* makes, also while a save is running, is built (URL, bearer token,       *)
(* entity id, TLS flag) from the fields of one saved configuration.        *)
C18_ConfigReplacedWholesale ==
    /\ saver.pc = "done" => \A k \in ConfigKeys : config[k] = settings[k]
    /\ \A i \in 1..Len(trace) :
          trace[i].e = "http" =>
             \E c \in SavedConfigurations : trace[i] = ToggleRequest(c)

----------------------------------------------------------------------------
\* the outcome lines of toggle_HA_state in tr
SwitchedLines(tr) ==
    SelectSeq(tr, LAMBDA x : x.e = "log" /\ x.level = "info"
                    /\ x.msg \in {"light switched ON", "light switched OFF"})
CannotLines(tr) ==
    SelectSeq(tr, LAMBDA x : x.e = "log" /\ x.level = "warning" /\ x.msg = MsgCannot)

(* C19: a toggle that passes the configuration check logs exactly one      *)
(* outcome line: info 'light switched ON/OFF' when its result differs from *)
(* the cache read at its start, warning 'cannot toggle light' otherwise;   *)
(* a toggle that ends in None, or whose result equals the cache it started *)
(* from, logs the warning and no 'light switched' line; a toggle under an  *)
(* incomplete configuration logs neither.                                  *)
C19_OneOutcomeLine ==
    phase = "started" =>
       \A hub \in HubsFor(LAMBDA h : toggle_HA_state(Self, h)) :
          LET t == toggle_HA_state(Self, hub)
              switched == Len(SwitchedLines(t.trace))
              cannot == Len(CannotLines(t.trace))
          IN  IF ConfigMissing(config)
              THEN switched = 0 /\ cannot = 0
              ELSE /\ switched + cannot = 1
                   /\ switched = 1 <=> t.result # isLightOn
                   /\ (t.result = PyNone \/ t.result = isLightOn)
                         => cannot = 1 /\ switched = 0

====
